---------------------------- MODULE Spec2Model ----------------------------
(***************************************************************************)
(* A model of app.py, the Vans delivery-data dashboard: one Streamlit      *)
(* script that is re-executed top to bottom on every interaction.          *)
(*                                                                         *)
(* The script is modelled stage by stage, each stage under a specification *)
(* of its own whose Init draws the stage's inputs from bounded sets:       *)
(*   SpecFlatten  _flatten_columns and the "Unnamed: " clean-up            *)
(*   SpecLoad     load_excel_any                                           *)
(*   SpecFilter   the sidebar filters and the employment-status mode       *)
(*   SpecRender   KPI panel, chart builder and PDF export                  *)
(*   Spec         the render pass as a whole: password gate, data source,  *)
(*                and the order of the stages                              *)
(*                                                                         *)
(* Text is a sequence of one-character strings, so that strip, join and    *)
(* replace are computed and not assumed.  A table cell is NaN (missing) or *)
(* <<v>>.                                                                  *)
(***************************************************************************)
EXTENDS Integers, Sequences, FiniteSets, TLC

VARIABLES
    pc,          \* position of the script in the stage being modelled
    columns,     \* SpecFlatten: the raw header labels handed to _flatten_columns
    flattened,   \* SpecFlatten: the normalised header texts
    xls,         \* SpecLoad: the workbook, a sequence of sheets
    frames,      \* SpecLoad: the per-sheet tables read so far
    loaded,      \* SpecLoad: what load_excel_any returns
    df_all,      \* the Record Table: [columns, rows]
    df_view,     \* the Filtered View
    sel,         \* the multiselect's value, per categorical filter column
    age_range,   \* the slider's value <<low, high>>, or Unused
    mode,        \* the "Most Common Employment" metric
    panel,       \* SpecRender: the metrics shown in the Key Metrics panel, label -> value
    charts,      \* SpecRender: the retained Chart Specs' file names, in order
    tmpdir,      \* SpecRender: the export's temporary directory: [exists, files]
    flow,        \* SpecRender: the PDF's flowables, in order
    download,    \* SpecRender: what the download button offers: "none" or "pdf"
    PASSWORD,    \* Spec: os.getenv("STREAMLIT_DASH_PASSWORD", "")
    ok,          \* Spec: the login form's submit button, in this pass
    pwd,         \* Spec: the login form's password field, in this pass
    choice,      \* Spec: the data source radio
    available,   \* Spec: whether the chosen source is there (the file, or an upload)
    page,        \* Spec: what the pass has put on the page, in order
    denied       \* Spec: how many passes the gate has halted so far (history, capped)

flattenVars == <<columns, flattened>>
loadVars == <<xls, frames, loaded>>
filterVars == <<df_all, df_view, sel, age_range, mode>>
renderVars == <<panel, charts, tmpdir, flow, download>>
passVars == <<PASSWORD, ok, pwd, choice, available, page, denied>>
vars == <<pc, flattenVars, loadVars, filterVars, renderVars, passVars>>

Unused == <<>>

\* the variables of the stages a specification leaves out
NoFlatten == columns = Unused /\ flattened = Unused
NoLoad == xls = Unused /\ frames = Unused /\ loaded = Unused
NoFilter ==
    /\ df_all = Unused /\ df_view = Unused /\ sel = Unused
    /\ age_range = Unused /\ mode = Unused
NoPass ==
    /\ PASSWORD = Unused /\ ok = Unused /\ pwd = Unused /\ choice = Unused
    /\ available = Unused /\ page = Unused /\ denied = Unused
NoRender ==
    /\ panel = Unused /\ charts = Unused /\ tmpdir = Unused
    /\ flow = Unused /\ download = Unused

-----------------------------------------------------------------------------
(* Bounds *)

MaxLen == 2        \* longest free-form header text
MaxParts == 3      \* most parts of a composite header label (the loader reads 3 header rows)
MaxSheets == 2     \* most sheets of a workbook
MaxBody == 3       \* most rows of a sheet below its first header row
MaxRows == 2       \* most rows of a Record Table
MaxViewRows == 1   \* most rows of the table the panel, charts and export are run on
MaxDenied == 2     \* the count of halted passes stops here

-----------------------------------------------------------------------------
(* Text *)

RECURSIVE SeqsUpTo(_, _)
SeqsUpTo(S, n) ==
    IF n = 0 THEN {<<>>}
    ELSE LET shorter == SeqsUpTo(S, n - 1)
         IN  shorter \cup {Append(s, x) : s \in {t \in shorter : Len(t) = n - 1}, x \in S}

SP == " "
NANTEXT == <<"n", "a", "n">>
SEP == <<" ", "-", " ">>
UNNAMED == <<"U", "n", "n", "a", "m", "e", "d", ":", " ">>

\* str.strip(): leading and trailing whitespace removed
RECURSIVE LStrip(_)
LStrip(s) == IF s # <<>> /\ Head(s) = SP THEN LStrip(Tail(s)) ELSE s

RECURSIVE RStrip(_)
RStrip(s) ==
    IF s # <<>> /\ s[Len(s)] = SP THEN RStrip(SubSeq(s, 1, Len(s) - 1)) ELSE s

Strip(s) == RStrip(LStrip(s))

\* sep.join(parts)
RECURSIVE Join(_, _)
Join(sep, parts) ==
    IF parts = <<>> THEN <<>>
    ELSE IF Len(parts) = 1 THEN parts[1]
    ELSE parts[1] \o sep \o Join(sep, Tail(parts))

StartsWith(s, p) == Len(s) >= Len(p) /\ SubSeq(s, 1, Len(p)) = p

\* s.replace(old, ""): every non-overlapping occurrence, left to right
RECURSIVE Remove(_, _)
Remove(s, old) ==
    IF s = <<>> THEN <<>>
    ELSE IF StartsWith(s, old) THEN Remove(SubSeq(s, Len(old) + 1, Len(s)), old)
    ELSE <<Head(s)>> \o Remove(Tail(s), old)

-----------------------------------------------------------------------------
(* Header labels.  A header cell is text or the float NaN that pandas puts *)
(* in an empty header cell; a label is one cell (single-row header) or a   *)
(* tuple of cells (multi-row header).                                      *)

TextCell(s) == [type |-> "str", text |-> s]
FloatNaN == [type |-> "float", text |-> <<>>]

\* str(x)
Str(x) == IF x.type = "float" THEN NANTEXT ELSE x.text

Scalar(x) == [composite |-> FALSE, parts |-> <<x>>]
Composite(ps) == [composite |-> TRUE, parts |-> ps]

\* repr(x) of a header cell, and str(col) of a tuple label
Repr(x) == IF x.type = "float" THEN NANTEXT ELSE <<"'">> \o x.text \o <<"'">>

StrTuple(ps) ==
    <<"(">> \o Join(<<",", " ">>, [i \in 1..Len(ps) |-> Repr(ps[i])])
            \o (IF Len(ps) = 1 THEN <<",">> ELSE <<>>) \o <<")">>

StrLabel(col) == IF col.composite THEN StrTuple(col.parts) ELSE Str(col.parts[1])

\* [str(x) for x in col if str(x) != "nan"]
KeptParts(ps) ==
    LET kept == SelectSeq(ps, LAMBDA x : Str(x) # NANTEXT)
    IN  [i \in 1..Len(kept) |-> Str(kept[i])]

\* FlattenOne gone wrong: "nan" parts kept; and a fallback to str(col)
FlattenKeepsNaN(col) ==
    IF col.composite
    THEN Strip(Join(SEP, [i \in 1..Len(col.parts) |-> Str(col.parts[i])]))
    ELSE Strip(Str(col.parts[1]))

FlattenFallsBack(col) ==
    IF col.composite
    THEN IF KeptParts(col.parts) = <<>> THEN StrLabel(col)
         ELSE Strip(Join(SEP, KeptParts(col.parts)))
    ELSE Strip(Str(col.parts[1]))

\* the body of _flatten_columns' loop
FlattenOne(col) ==
    IF col.composite
    THEN Strip(Join(SEP, KeptParts(col.parts)))
    ELSE Strip(Str(col.parts[1]))

_flatten_columns(cols) == [i \in 1..Len(cols) |-> FlattenOne(cols[i])]

\* [c.replace("Unnamed: ", "").strip() for c in df.columns]
CleanUnnamed(cols) == [i \in 1..Len(cols) |-> Strip(Remove(cols[i], UNNAMED))]

FreeText == SeqsUpTo({SP, "a"}, MaxLen)
HeaderTexts == FreeText \cup {NANTEXT, UNNAMED \o <<"a">>, <<"a", " ">> \o UNNAMED}
HeaderCells == {TextCell(s) : s \in HeaderTexts} \cup {FloatNaN}
Labels ==
    {Scalar(x) : x \in HeaderCells}
        \cup {Composite(ps) : ps \in SeqsUpTo(HeaderCells, MaxParts)}

InitFlatten ==
    /\ pc = "flatten"
    /\ \E col \in Labels : columns = <<col>>
    /\ flattened = <<>>
    /\ NoLoad
    /\ NoFilter
    /\ NoRender
    /\ NoPass

Flatten ==
    /\ pc = "flatten"
    /\ flattened' = _flatten_columns(columns)
    /\ pc' = "clean"
    /\ UNCHANGED <<columns, loadVars, filterVars, renderVars, passVars>>

Clean ==
    /\ pc = "clean"
    /\ flattened' = CleanUnnamed(flattened)
    /\ pc' = "named"
    /\ UNCHANGED <<columns, loadVars, filterVars, renderVars, passVars>>

NextFlatten == Flatten \/ Clean

SpecFlatten == InitFlatten /\ [][NextFlatten]_vars

-----------------------------------------------------------------------------
(* load_excel_any.  A sheet is its header cells (one column, three header  *)
(* rows deep), the number of rows below the first header row, and what     *)
(* pd.read_excel makes of it: the 3-level parse can fail, and so can the   *)
(* single-level one.  A 3-level parse takes the first two body rows as     *)
(* header levels 2 and 3.  A data row is identified by <<sheet, body row>>.*)

TXT_A == TextCell(<<"a">>)
SheetHeaders ==
    { <<TXT_A, FloatNaN, TXT_A>>,
      <<TextCell(UNNAMED \o <<"a">>), FloatNaN, FloatNaN>> }

Sheets ==
    { sh \in [header : SheetHeaders, body : 0..MaxBody,
              multi : BOOLEAN, single : BOOLEAN] :
        sh.multi => sh.body >= 2 }

Workbooks == SeqsUpTo(Sheets, MaxSheets) \ {<<>>}

IndexedRows(s, from, to) ==
    [k \in 1..(IF to >= from THEN to - from + 1 ELSE 0) |->
        [index |-> k - 1, sheet |-> s, row |-> from + k - 1]]

\* pd.read_excel(..., header=[0,1,2]) and pd.read_excel(..., header=0)
ReadMulti(s, sh) ==
    [columns |-> <<Composite(sh.header)>>, rows |-> IndexedRows(s, 3, sh.body)]

ReadSingle(s, sh) ==
    [columns |-> <<Scalar(sh.header[1])>>, rows |-> IndexedRows(s, 1, sh.body)]

\* lines 50-56 for one sheet: the try, its except, and the clean-up
ReadFrame(s, sh) ==
    LET df == IF sh.multi THEN ReadMulti(s, sh) ELSE ReadSingle(s, sh)
    IN  [columns |-> CleanUnnamed(_flatten_columns(df.columns)), rows |-> df.rows]

RECURSIVE Flat(_)
Flat(ss) == IF ss = <<>> THEN <<>> ELSE Head(ss) \o Flat(Tail(ss))

RECURSIVE Dedup(_)
Dedup(s) ==
    IF s = <<>> THEN <<>>
    ELSE LET front == Dedup(SubSeq(s, 1, Len(s) - 1))
             last == s[Len(s)]
         IN  IF \E i \in 1..Len(front) : front[i] = last THEN front
             ELSE Append(front, last)

Reindexed(rows) == [k \in 1..Len(rows) |-> [rows[k] EXCEPT !.index = k - 1]]

\* PdConcat gone wrong: ignore_index left out
PdConcatKeepsIndex(fs) ==
    [columns |-> Dedup(Flat([i \in 1..Len(fs) |-> fs[i].columns])),
     rows |-> Flat([i \in 1..Len(fs) |-> fs[i].rows])]

\* pd.concat(frames, ignore_index=True)
PdConcat(fs) ==
    [columns |-> Dedup(Flat([i \in 1..Len(fs) |-> fs[i].columns])),
     rows |-> Reindexed(Flat([i \in 1..Len(fs) |-> fs[i].rows]))]

InitLoad ==
    /\ pc = "sheets"
    /\ xls \in Workbooks
    /\ frames = <<>>
    /\ loaded = Unused
    /\ NoFlatten
    /\ NoFilter
    /\ NoRender
    /\ NoPass

\* one iteration of the loop over xls.sheet_names
ReadSheet ==
    /\ pc = "sheets"
    /\ Len(frames) < Len(xls)
    /\ LET s == Len(frames) + 1
           sh == xls[s]
       IN  /\ sh.multi \/ sh.single
           /\ frames' = Append(frames, ReadFrame(s, sh))
    /\ UNCHANGED <<pc, xls, loaded, flattenVars, filterVars, renderVars, passVars>>

\* the single-level parse in the except branch raises too
ReadSheetRaises ==
    /\ pc = "sheets"
    /\ Len(frames) < Len(xls)
    /\ LET sh == xls[Len(frames) + 1] IN ~sh.multi /\ ~sh.single
    /\ pc' = "raised"
    /\ UNCHANGED <<xls, frames, loaded, flattenVars, filterVars, renderVars, passVars>>

Concat ==
    /\ pc = "sheets"
    /\ Len(frames) = Len(xls)
    /\ loaded' = PdConcat(frames)
    /\ pc' = "loaded"
    /\ UNCHANGED <<xls, frames, flattenVars, filterVars, renderVars, passVars>>

NextLoad == ReadSheet \/ ReadSheetRaises \/ Concat

SpecLoad == InitLoad /\ [][NextLoad]_vars

-----------------------------------------------------------------------------
(* Tables.  A cell is NaN or <<v>>; a row maps the table's columns to      *)
(* cells.  Ages are counted in half years, so that an age need not be a    *)
(* whole number: <<41>> is 20.5 years.                                     *)

NaN == <<>>
IsNaN(cell) == cell = NaN

COMPANY == "Company"
EMPLOYMENT == "Employment Status"
AREAS == "Areas Covered"
AGE == "Age (Years)"
DELIVERIES == "Deliveries per day"
INSURANCE == "Medical Insurance"
NET_INCOME == "Net Income (Gross - All Expenses) (EGP)"
FUEL == "Fuel Expenses (EGP)"
MAINTENANCE == "Maintenance Costs (EGP)"
FINANCING == "Financing/Lease (EGP)"
OTHER_EXPENSES == "Other Expenses (licenses, permits, fines, etc....)"

\* for c in ["Company", "Employment Status", "Areas Covered"]
CategoricalFilters == <<COMPANY, EMPLOYMENT, AREAS>>
FilterColumns == {COMPANY, EMPLOYMENT, AREAS, AGE}

SurveyRow(company, status, areas, age, deliveries, insurance, income) ==
    (COMPANY :> company) @@ (EMPLOYMENT :> status) @@ (AREAS :> areas)
        @@ (AGE :> age) @@ (DELIVERIES :> deliveries) @@ (INSURANCE :> insurance)
        @@ (NET_INCOME :> income) @@ (FUEL :> <<10>>) @@ (MAINTENANCE :> <<5>>)
        @@ (FINANCING :> NaN) @@ (OTHER_EXPENSES :> <<1>>)

RowPool ==
    { SurveyRow(<<"Talabat">>, <<"Full-time">>, <<"Cairo">>, <<41>>, <<30>>, <<"Yes">>, <<9000>>),
      SurveyRow(<<"Bosta">>, <<"Freelance">>, <<"Cairo">>, <<42>>, <<25>>, <<"No">>, <<7500>>),
      SurveyRow(<<"Talabat">>, <<"Freelance">>, NaN, <<43>>, <<12>>, <<"Yes">>, <<4000>>),
      SurveyRow(NaN, <<"Full-time">>, <<"Giza">>, NaN, NaN, NaN, <<6000>>),
      SurveyRow(<<"Bosta">>, NaN, <<"Cairo">>, <<42>>, <<25>>, <<"No">>, NaN) }

Restrict(row, cols) == [c \in cols |-> row[c]]

Tables(colsets, maxrows) ==
    { [columns |-> cols, rows |-> [i \in 1..Len(rs) |-> Restrict(rs[i], cols)]] :
        cols \in colsets, rs \in SeqsUpTo(RowPool, maxrows) }

Column(df, c) == [i \in 1..Len(df.rows) |-> df.rows[i][c]]

\* Series.dropna().unique(), as a set
Vals(df, c) == {df.rows[i][c][1] : i \in {j \in 1..Len(df.rows) : ~IsNaN(df.rows[j][c])}}

\* IsIn gone wrong: a missing value passes the membership test
IsInOrMissing(cell, chosen) == IsNaN(cell) \/ cell[1] \in chosen

\* Series.isin(sel), for one cell: NaN is in no selection of non-missing values
IsIn(cell, chosen) == ~IsNaN(cell) /\ cell[1] \in chosen

\* Series.between(low, high), for one age in half years: inclusive, NaN is outside
Between(cell, low, high) == ~IsNaN(cell) /\ 2 * low <= cell[1] /\ cell[1] <= 2 * high

\* int(x) of an age given in half years: truncation towards zero
IntOfHalves(h) == IF h >= 0 THEN h \div 2 ELSE -((-h) \div 2)

Least(S) == CHOOSE x \in S : \A y \in S : x <= y
Greatest(S) == CHOOSE x \in S : \A y \in S : y <= x

\* df_view[df_view[c].isin(sel)]
KeepIsIn(df, c, chosen) ==
    [df EXCEPT !.rows = SelectSeq(df.rows, LAMBDA r : IsIn(r[c], chosen))]

\* KeepBetween gone wrong: the upper end of the range is exclusive
KeepBelow(df, low, high) ==
    [df EXCEPT !.rows =
        SelectSeq(df.rows, LAMBDA r : Between(r[AGE], low, high) /\ r[AGE][1] < 2 * high)]

\* df_view[df_view["Age (Years)"].between(age_range[0], age_range[1])]
KeepBetween(df, low, high) ==
    [df EXCEPT !.rows = SelectSeq(df.rows, LAMBDA r : Between(r[AGE], low, high))]

\* pandas sorts the modes; text values are ordered as in this list
TextOrder == <<"Freelance", "Full-time">>
Rank(v) == CHOOSE i \in 1..Len(TextOrder) : TextOrder[i] = v

Count(df, c, v) == Cardinality({i \in 1..Len(df.rows) : df.rows[i][c] = <<v>>})

\* Series.mode(): the most frequent non-missing values
Modes(df, c) ==
    {v \in Vals(df, c) : \A w \in Vals(df, c) : Count(df, c, w) <= Count(df, c, v)}

\* MostCommonEmployment gone wrong: no test for the empty view
ModeUnguarded(df) ==
    IF Modes(df, EMPLOYMENT) = {} THEN "KeyError"
    ELSE CHOOSE v \in Modes(df, EMPLOYMENT) :
            \A w \in Modes(df, EMPLOYMENT) : Rank(v) <= Rank(w)

\* df_view["Employment Status"].mode()[0] if not ....empty else "N/A"
\* (mode() of a column of missing values is empty, and [0] raises)
MostCommonEmployment(df) ==
    IF df.rows = <<>> THEN "N/A"
    ELSE IF Modes(df, EMPLOYMENT) = {} THEN "KeyError"
    ELSE CHOOSE v \in Modes(df, EMPLOYMENT) :
            \A w \in Modes(df, EMPLOYMENT) : Rank(v) <= Rank(w)

\* the loop over the categorical filter columns: pc is the column at hand
InLoop == \E i \in 1..Len(CategoricalFilters) : pc = CategoricalFilters[i]
AfterColumn(c) ==
    LET i == CHOOSE j \in 1..Len(CategoricalFilters) : CategoricalFilters[j] = c
    IN  IF i < Len(CategoricalFilters) THEN CategoricalFilters[i + 1] ELSE "age"

InitFilter ==
    /\ pc = CategoricalFilters[1]
    /\ df_all \in Tables(SUBSET FilterColumns, MaxRows)
    /\ df_view = df_all
    /\ sel = <<>>
    /\ age_range = Unused
    /\ mode = Unused
    /\ NoFlatten
    /\ NoLoad
    /\ NoRender
    /\ NoPass

\* one iteration of the loop over the categorical filter columns, column present
FilterColumn ==
    /\ InLoop
    /\ pc \in df_all.columns
    /\ \E chosen \in SUBSET Vals(df_all, pc) :
          /\ sel' = (pc :> chosen) @@ sel
          /\ df_view' = KeepIsIn(df_view, pc, chosen)
    /\ pc' = AfterColumn(pc)
    /\ UNCHANGED <<df_all, age_range, mode, flattenVars, loadVars, renderVars, passVars>>

\* the same iteration, column absent
SkipColumn ==
    /\ InLoop
    /\ pc \notin df_all.columns
    /\ pc' = AfterColumn(pc)
    /\ UNCHANGED <<filterVars, flattenVars, loadVars, renderVars, passVars>>

\* lines 87-90, column present and some age not missing
AgeFilter ==
    /\ pc = "age"
    /\ AGE \in df_all.columns
    /\ Vals(df_all, AGE) # {}
    /\ LET min_age == IntOfHalves(Least(Vals(df_all, AGE)))
           max_age == IntOfHalves(Greatest(Vals(df_all, AGE)))
       IN  \E low \in min_age..max_age : \E high \in low..max_age :
              /\ age_range' = <<low, high>>
              /\ df_view' = KeepBetween(df_view, low, high)
    /\ pc' = "kpi"
    /\ UNCHANGED <<df_all, sel, mode, flattenVars, loadVars, renderVars, passVars>>

\* lines 87-88, every age missing (or no row): min() is NaN and int(NaN) raises
AgeRaises ==
    /\ pc = "age"
    /\ AGE \in df_all.columns
    /\ Vals(df_all, AGE) = {}
    /\ pc' = "raised"
    /\ UNCHANGED <<filterVars, flattenVars, loadVars, renderVars, passVars>>

SkipAge ==
    /\ pc = "age"
    /\ AGE \notin df_all.columns
    /\ pc' = "kpi"
    /\ UNCHANGED <<filterVars, flattenVars, loadVars, renderVars, passVars>>

\* lines 102-104
ModeMetric ==
    /\ pc = "kpi"
    /\ mode' = IF EMPLOYMENT \in df_view.columns
               THEN MostCommonEmployment(df_view) ELSE "not shown"
    /\ pc' = IF mode' = "KeyError" THEN "raised" ELSE "shown"
    /\ UNCHANGED <<df_all, df_view, sel, age_range, flattenVars, loadVars, renderVars, passVars>>

NextFilter ==
    FilterColumn \/ SkipColumn \/ AgeFilter \/ AgeRaises \/ SkipAge \/ ModeMetric

SpecFilter == InitFilter /\ [][NextFilter]_vars

-----------------------------------------------------------------------------
(* Key Metrics, Visual Analytics and PDF Export, run on a Filtered View.   *)
(* A formatted number is an integer count of its last shown digit: 25.3 is *)
(* [n |-> 253]; the binary rounding error of a float is not modelled.      *)

RenderColumns ==
    {COMPANY, EMPLOYMENT, AGE, DELIVERIES, INSURANCE, NET_INCOME,
     FUEL, MAINTENANCE, FINANCING, OTHER_EXPENSES}

\* the filters of lines 82-90 with every control left at its default
DefaultView(df) ==
    LET kept == SelectSeq(df.rows,
                    LAMBDA r : \A i \in 1..Len(CategoricalFilters) :
                        CategoricalFilters[i] \in df.columns =>
                            IsIn(r[CategoricalFilters[i]], Vals(df, CategoricalFilters[i])))
        byCategory == [df EXCEPT !.rows = kept]
    IN  IF AGE \in df.columns
        THEN KeepBetween(byCategory, IntOfHalves(Least(Vals(df, AGE))),
                         IntOfHalves(Greatest(Vals(df, AGE))))
        ELSE byCategory

Shown(n, unit) == [nan |-> FALSE, n |-> n, text |-> unit]
ShownNaN(unit) == [nan |-> TRUE, n |-> 0, text |-> unit]
ShownText(t) == [nan |-> FALSE, n |-> 0, text |-> t]

RECURSIVE SumOf(_)
SumOf(cells) ==
    IF cells = <<>> THEN 0
    ELSE (IF IsNaN(Head(cells)) THEN 0 ELSE Head(cells)[1]) + SumOf(Tail(cells))

Present(cells) == Cardinality({i \in 1..Len(cells) : ~IsNaN(cells[i])})

\* num/den rounded to the nearest integer, ties to even (num >= 0, den > 0)
RoundHalfEven(num, den) ==
    LET q == num \div den
        r == num % den
    IN  IF 2 * r < den THEN q
        ELSE IF 2 * r > den THEN q + 1
        ELSE IF q % 2 = 0 THEN q ELSE q + 1

\* round(df_view["Deliveries per day"].mean(), 1), in tenths
AvgDeliveries(df) ==
    LET cells == Column(df, DELIVERIES)
    IN  IF Present(cells) = 0 THEN ShownNaN("")
        ELSE Shown(RoundHalfEven(10 * SumOf(cells), Present(cells)), "")

\* f"{df_view['Medical Insurance'].eq('Yes').mean()*100:.1f}%", in tenths of a percent
PctInsured(df) ==
    LET cells == Column(df, INSURANCE)
        yes == Cardinality({i \in 1..Len(cells) : cells[i] = <<"Yes">>})
    IN  IF cells = <<>> THEN ShownNaN("%")
        ELSE Shown(RoundHalfEven(1000 * yes, Len(cells)), "%")

\* f"{df_view['Net Income ...'].mean():,.0f} EGP"
AvgNetIncome(df) ==
    LET cells == Column(df, NET_INCOME)
    IN  IF Present(cells) = 0 THEN ShownNaN(" EGP")
        ELSE Shown(RoundHalfEven(SumOf(cells), Present(cells)), " EGP")

DELIVERIES_KPI == "Avg Deliveries/day"
INSURANCE_KPI == "% with Medical Insurance"
NET_INCOME_KPI == "Avg Net Income"
EMPLOYMENT_KPI == "Most Common Employment"

\* lines 95-104: what col1..col4 show
KeyMetrics(df) ==
    LET labels ==
            {DELIVERIES_KPI : x \in {DELIVERIES} \cap df.columns}
                \cup {INSURANCE_KPI : x \in {INSURANCE} \cap df.columns}
                \cup {NET_INCOME_KPI : x \in {NET_INCOME} \cap df.columns}
                \cup {EMPLOYMENT_KPI : x \in {EMPLOYMENT} \cap df.columns}
    IN  [l \in labels |->
            IF l = DELIVERIES_KPI THEN AvgDeliveries(df)
            ELSE IF l = INSURANCE_KPI THEN PctInsured(df)
            ELSE IF l = NET_INCOME_KPI THEN AvgNetIncome(df)
            ELSE ShownText(MostCommonEmployment(df))]

Paragraph(label, value) == [kind |-> "Paragraph", label |-> label, value |-> value]
Spacer == [kind |-> "Spacer", label |-> "", value |-> ShownText("")]
Image(fname) == [kind |-> "Image", label |-> fname, value |-> ShownText("")]

\* lines 175-187: title, timestamp, the KPI paragraphs
FlowHead(df) ==
    <<Paragraph("Vans Data Dashboard Snapshot", ShownText("")),
      Paragraph("%Y-%m-%d %H:%M", ShownText("now")),
      Spacer>>
        \o (IF DELIVERIES \in df.columns
            THEN <<Paragraph(DELIVERIES_KPI, AvgDeliveries(df))>> ELSE <<>>)
        \o (IF INSURANCE \in df.columns
            THEN <<Paragraph(INSURANCE_KPI, PctInsured(df))>> ELSE <<>>)
        \o (IF NET_INCOME \in df.columns
            THEN <<Paragraph(NET_INCOME_KPI, AvgNetIncome(df))>> ELSE <<>>)
        \o <<Spacer>>

PDF_NAME == "dashboard_snapshot.pdf"
NoDir == [exists |-> FALSE, files |-> {}]

InitRender ==
    /\ pc = "kpi"
    /\ df_all \in {df \in Tables(SUBSET RenderColumns, MaxViewRows) :
                      AGE \in df.columns => Vals(df, AGE) # {}}
    /\ df_view = DefaultView(df_all)
    /\ sel = Unused
    /\ age_range = Unused
    /\ mode = Unused
    /\ panel = <<>>
    /\ charts = <<>>
    /\ tmpdir = NoDir
    /\ flow = <<>>
    /\ download = "none"
    /\ NoFlatten
    /\ NoLoad
    /\ NoPass

Unchanged(vs) == UNCHANGED <<vs, df_all, df_view, sel, age_range, mode, flattenVars, loadVars, passVars>>

\* lines 93-104
Metrics ==
    /\ pc = "kpi"
    /\ panel' = KeyMetrics(df_view)
    /\ pc' = IF EMPLOYMENT \in df_view.columns /\ MostCommonEmployment(df_view) = "KeyError"
             THEN "raised" ELSE "pie"
    /\ Unchanged(<<charts, tmpdir, flow, download>>)

\* one guarded chart section: the chart is retained when its columns are there
ChartSection(at, needed, fname, then) ==
    /\ pc = at
    /\ charts' = IF needed \subseteq df_view.columns THEN Append(charts, fname) ELSE charts
    /\ pc' = then
    /\ Unchanged(<<panel, tmpdir, flow, download>>)

\* lines 135-138
PieChart == ChartSection("pie", {EMPLOYMENT}, "pie.png", "deliveries")
\* lines 140-144
DeliveriesChart == ChartSection("deliveries", {COMPANY, DELIVERIES}, "deliveries.png", "ages")
\* lines 146-149
AgeChart == ChartSection("ages", {AGE}, "age.png", "income")
\* lines 151-155
IncomeChart == ChartSection("income", {NET_INCOME, EMPLOYMENT}, "income.png", "expenses")

ExpenseColumns == {FUEL, MAINTENANCE, FINANCING, OTHER_EXPENSES}

\* lines 157-164: the guard looks for the fuel column and Company only
ExpensesChart ==
    /\ pc = "expenses"
    /\ {FUEL, COMPANY} \subseteq df_view.columns => ExpenseColumns \subseteq df_view.columns
    /\ charts' = IF {FUEL, COMPANY} \subseteq df_view.columns
                 THEN Append(charts, "expenses.png") ELSE charts
    /\ pc' = "export"
    /\ Unchanged(<<panel, tmpdir, flow, download>>)

\* line 158: selecting a column the view lacks raises KeyError
ExpensesChartRaises ==
    /\ pc = "expenses"
    /\ {FUEL, COMPANY} \subseteq df_view.columns
    /\ ~(ExpenseColumns \subseteq df_view.columns)
    /\ pc' = "KeyError"
    /\ Unchanged(<<panel, charts, tmpdir, flow, download>>)

\* line 168: the button was not pressed in this pass
NoExport ==
    /\ pc = "export"
    /\ pc' = "end"
    /\ Unchanged(<<panel, charts, tmpdir, flow, download>>)

\* lines 168-187
ExportStart ==
    /\ pc = "export"
    /\ tmpdir' = [exists |-> TRUE, files |-> {}]
    /\ flow' = FlowHead(df_view)
    /\ pc' = "images"
    /\ Unchanged(<<panel, charts, download>>)

ImagesWritten == Cardinality({i \in 1..Len(flow) : flow[i].kind = "Image"})

\* lines 190-194, one chart
WriteImage ==
    /\ pc = "images"
    /\ ImagesWritten < Len(charts)
    /\ LET fname == charts[ImagesWritten + 1]
       IN  /\ tmpdir' = [tmpdir EXCEPT !.files = @ \cup {fname}]
           /\ flow' = flow \o <<Image(fname), Spacer>>
    /\ Unchanged(<<pc, panel, charts, download>>)

\* WriteImageRaises gone wrong: the directory is not removed on the way out
WriteImageRaisesAndLeaks ==
    /\ pc = "images"
    /\ ImagesWritten < Len(charts)
    /\ pc' = "export failed"
    /\ Unchanged(<<panel, charts, flow, download, tmpdir>>)

\* line 192 raises; the with block of line 169 removes the directory
WriteImageRaises ==
    /\ pc = "images"
    /\ ImagesWritten < Len(charts)
    /\ tmpdir' = NoDir
    /\ pc' = "export failed"
    /\ Unchanged(<<panel, charts, flow, download>>)

\* line 196
Build ==
    /\ pc = "images"
    /\ ImagesWritten = Len(charts)
    /\ tmpdir' = [tmpdir EXCEPT !.files = @ \cup {PDF_NAME}]
    /\ pc' = "built"
    /\ Unchanged(<<panel, charts, flow, download>>)

\* line 196 raises
BuildRaises ==
    /\ pc = "images"
    /\ ImagesWritten = Len(charts)
    /\ tmpdir' = NoDir
    /\ pc' = "export failed"
    /\ Unchanged(<<panel, charts, flow, download>>)

\* lines 197-198, and the end of the with block
Download ==
    /\ pc = "built"
    /\ download' = "pdf"
    /\ tmpdir' = NoDir
    /\ pc' = "end"
    /\ Unchanged(<<panel, charts, flow>>)

NextRender ==
    \/ Metrics
    \/ PieChart \/ DeliveriesChart \/ AgeChart \/ IncomeChart
    \/ ExpensesChart \/ ExpensesChartRaises
    \/ NoExport \/ ExportStart
    \/ WriteImage \/ WriteImageRaises \/ Build \/ BuildRaises \/ Download

SpecRender == InitRender /\ [][NextRender]_vars

-----------------------------------------------------------------------------
(* The render pass as a whole.  Streamlit runs the script from the top on  *)
(* every interaction; a stage is one step here, and what it does inside is *)
(* the matter of the specifications above.                                 *)

Secrets == {"", "vans2024", "letmein"}

INCLUDED == "Use included file"
UPLOAD == "Upload your own"

INFO_PROMPT == "info: Enter the password to access the dashboard."

\* GateHalts gone wrong: "and" for "or"
GateHaltsOnlyUnsubmitted(submitted, typed) == ~submitted /\ typed # PASSWORD

\* line 26: not ok or pwd != PASSWORD
GateHalts(submitted, typed) == ~submitted \/ typed # PASSWORD

Init ==
    /\ pc = "auth"
    /\ PASSWORD \in Secrets
    /\ ok = FALSE
    /\ pwd = ""
    /\ choice = INCLUDED
    /\ available \in BOOLEAN
    /\ page = <<>>
    /\ denied = 0
    /\ NoFlatten
    /\ NoLoad
    /\ NoFilter
    /\ NoRender

Rest(vs) == UNCHANGED <<vs, flattenVars, loadVars, filterVars, renderVars>>

\* lines 17-28, password set: the form is shown and read, the pass halts or goes on
Gate ==
    /\ pc = "auth"
    /\ PASSWORD # ""
    /\ \E submitted \in BOOLEAN, typed \in Secrets :
          /\ ok' = submitted
          /\ pwd' = typed
          /\ IF GateHalts(submitted, typed)
             THEN /\ page' = page \o <<"title", "login form", INFO_PROMPT>>
                  /\ pc' = "stopped"
                  /\ denied' = IF denied < MaxDenied THEN denied + 1 ELSE denied
             ELSE /\ page' = page \o <<"title", "login form">>
                  /\ pc' = "source"
                  /\ UNCHANGED denied
    /\ Rest(<<PASSWORD, choice, available>>)

\* line 18, password unset or empty: no form
NoGate ==
    /\ pc = "auth"
    /\ PASSWORD = ""
    /\ pc' = "source"
    /\ Rest(passVars)

\* lines 30-73
DataSource ==
    /\ pc = "source"
    /\ IF available
       THEN /\ page' = page \o <<"title", "caption", "radio">>
                            \o (IF choice = UPLOAD THEN <<"uploader">> ELSE <<>>)
            /\ pc' = "filters"
       ELSE /\ page' = page \o <<"title", "caption", "radio">>
                            \o (IF choice = UPLOAD THEN <<"uploader">>
                                ELSE <<"error: Included file not found.">>)
            /\ pc' = "stopped for data"
    /\ Rest(<<PASSWORD, ok, pwd, choice, available, denied>>)

\* a stage that runs through, or raises and ends the pass
Stage(at, shows, then, canRaise) ==
    /\ pc = at
    /\ \E raises \in {FALSE, canRaise} :
          IF raises
          THEN pc' = "raised" /\ UNCHANGED page
          ELSE pc' = then /\ page' = Append(page, shows)
    /\ Rest(<<PASSWORD, ok, pwd, choice, available, denied>>)

\* lines 76-90; int() of a missing age raises
FiltersStage == Stage("filters", "filters", "kpi", TRUE)
\* lines 93-104
MetricsStage == Stage("kpi", "metrics", "pivot", FALSE)

\* lines 107-128: an error of the pivot widget is caught and shown
PivotStage ==
    /\ pc = "pivot"
    /\ \E shows \in {"pivot", "Pivot error"} : page' = page \o <<"presets", shows>>
    /\ pc' = "charts"
    /\ Rest(<<PASSWORD, ok, pwd, choice, available, denied>>)

\* lines 131-164; the expenses chart can raise
ChartsStage == Stage("charts", "charts", "export", TRUE)
\* lines 167-198; the export can raise
ExportStage == Stage("export", "export", "end", TRUE)

\* the next interaction: the script starts over with the widgets' new values
Rerun ==
    /\ pc \in {"stopped", "stopped for data", "raised", "end"}
    /\ pc' = "auth"
    /\ ok' = FALSE
    /\ pwd' = ""
    /\ page' = <<>>
    /\ choice' \in {INCLUDED, UPLOAD}
    /\ available' \in BOOLEAN
    /\ Rest(<<PASSWORD, denied>>)

Next ==
    \/ Gate \/ NoGate \/ DataSource
    \/ FiltersStage \/ MetricsStage \/ PivotStage \/ ChartsStage \/ ExportStage
    \/ Rerun

Spec == Init /\ [][Next]_vars

-----------------------------------------------------------------------------
(* Properties of the Column Normalizer (SpecFlatten)                       *)

IsNaNPart(x) == Str(x) = NANTEXT

\* the non-"nan" parts' texts joined by " - ", written out part by part
RECURSIVE DashJoined(_)
DashJoined(ps) ==
    IF ps = <<>> THEN <<>>
    ELSE IF IsNaNPart(Head(ps)) THEN DashJoined(Tail(ps))
    ELSE IF \A i \in 2..Len(ps) : IsNaNPart(ps[i]) THEN Str(Head(ps))
    ELSE Str(Head(ps)) \o SEP \o DashJoined(Tail(ps))

Flattened == pc = "clean" /\ columns[1].composite

\* C2 as stated: a composite label flattens to exactly its non-"nan" parts
\* joined by " - ", in order.
C2_JoinedExactly ==
    Flattened => flattened[1] = DashJoined(columns[1].parts)

\* C2 as amended: a composite label flattens to its non-"nan" parts joined by
\* " - ", in order, with the whitespace at both ends of the joined text removed.
C2_JoinedThenStripped ==
    Flattened => flattened[1] = Strip(DashJoined(columns[1].parts))

\* a dropped part, two kept ones, and a join that strip() shortens
C2_Witness ==
    /\ Flattened
    /\ \E i \in 1..Len(columns[1].parts) : IsNaNPart(columns[1].parts[i])
    /\ flattened[1] # DashJoined(columns[1].parts)
    /\ \E i \in 1..Len(flattened[1]) : flattened[1][i] = "-"

EmptyComposite ==
    /\ pc \in {"clean", "named"}
    /\ columns[1].composite
    /\ \A i \in 1..Len(columns[1].parts) : IsNaNPart(columns[1].parts[i])

IsText(s) == DOMAIN s = 1..Len(s) /\ \A i \in 1..Len(s) : s[i] \in STRING

\* C3 as stated: the normalizer always yields a text, and an empty composite
\* yields the stringified original label, not the empty text.
C3_FallsBackToOriginal ==
    /\ pc \in {"clean", "named"} => IsText(flattened[1])
    /\ EmptyComposite => flattened[1] = StrLabel(columns[1]) /\ flattened[1] # <<>>

\* C3 as amended: the normalizer always yields a text, and an empty composite
\* (no parts, or only "nan" parts) yields the empty text.
C3_EmptyCompositeIsEmptyText ==
    /\ pc \in {"clean", "named"} => IsText(flattened[1])
    /\ EmptyComposite => flattened[1] = <<>>

C3_Witness ==
    /\ EmptyComposite
    /\ pc = "named"
    /\ columns[1].parts # <<>>
    /\ flattened[1] = <<>>

-----------------------------------------------------------------------------
(* Properties of the Dataset Loader (SpecLoad)                             *)

\* the data rows of a sheet as it gets parsed: first body row .. last
FirstDataRow(sh) == IF sh.multi THEN 3 ELSE 1
DataRowCount(sh) ==
    IF sh.body >= FirstDataRow(sh) THEN sh.body - FirstDataRow(sh) + 1 ELSE 0

RECURSIVE SumRows(_)
SumRows(wb) == IF wb = <<>> THEN 0 ELSE DataRowCount(Head(wb)) + SumRows(Tail(wb))

\* C9: the loaded table has the sum of the sheets' row counts, each sheet's
\* rows as its own parse (3-level, else single-level) gives them, in sheet
\* order, indexed 0..n-1; and only a sheet neither parse can read raises.
C9_RowsConcatenated ==
    /\ pc = "loaded" =>
        /\ Len(loaded.rows) = SumRows(xls)
        /\ \A k \in 1..Len(loaded.rows) : loaded.rows[k].index = k - 1
        /\ \A j, k \in 1..Len(loaded.rows) :
              j < k => \/ loaded.rows[j].sheet < loaded.rows[k].sheet
                       \/ /\ loaded.rows[j].sheet = loaded.rows[k].sheet
                          /\ loaded.rows[j].row < loaded.rows[k].row
        /\ \A s \in 1..Len(xls) :
              {loaded.rows[k].row : k \in {i \in 1..Len(loaded.rows) : loaded.rows[i].sheet = s}}
                  = FirstDataRow(xls[s])..xls[s].body
    /\ pc = "raised" =>
        LET sh == xls[Len(frames) + 1] IN ~sh.multi /\ ~sh.single

\* two sheets with rows, one read 3-level, one by the single-level fallback
C9_Witness ==
    /\ pc = "loaded"
    /\ \E s, t \in 1..Len(xls) :
          /\ s < t
          /\ ~xls[s].multi /\ xls[s].body >= 2
          /\ xls[t].multi /\ xls[t].body >= 3

-----------------------------------------------------------------------------
(* Properties of the Filter Engine and the mode metric (SpecFilter)        *)

Filtered == pc \in {"kpi", "shown"}

RECURSIVE IsSubsequence(_, _)
IsSubsequence(s, t) ==
    IF s = <<>> THEN TRUE
    ELSE IF t = <<>> THEN FALSE
    ELSE IF Head(s) = Head(t) THEN IsSubsequence(Tail(s), Tail(t))
    ELSE IsSubsequence(s, Tail(t))

PresentCategoricals ==
    {c \in df_all.columns : \E i \in 1..Len(CategoricalFilters) : CategoricalFilters[i] = c}

\* C1: the Filtered View holds only rows of the Record Table, each with a
\* selected value in every present categorical filter column and an age
\* inside the selected range, and it has the Record Table's columns.
C1_ViewWithinTable ==
    Filtered =>
        /\ df_view.columns = df_all.columns
        /\ Len(df_view.rows) <= Len(df_all.rows)
        /\ IsSubsequence(df_view.rows, df_all.rows)
        /\ DOMAIN sel = PresentCategoricals
        /\ (AGE \in df_all.columns) = (age_range # Unused)
        /\ \A i \in 1..Len(df_view.rows) :
              /\ \A c \in PresentCategoricals :
                    df_view.rows[i][c] # NaN /\ df_view.rows[i][c][1] \in sel[c]
              /\ AGE \in df_all.columns =>
                    /\ df_view.rows[i][AGE] # NaN
                    /\ 2 * age_range[1] <= df_view.rows[i][AGE][1]
                    /\ df_view.rows[i][AGE][1] <= 2 * age_range[2]

\* some rows kept, some removed, with a value deselected and the age range on
C1_Witness ==
    /\ Filtered
    /\ df_view.rows # <<>>
    /\ Len(df_view.rows) < Len(df_all.rows)
    /\ \E c \in PresentCategoricals : sel[c] # Vals(df_all, c)
    /\ age_range # Unused

\* C6: with an Employment Status column the mode metric never fails: "N/A" for
\* an empty view, otherwise a most frequent value of the view's column.
C6_ModeNeverFails ==
    /\ mode # "KeyError"
    /\ (pc = "shown" /\ EMPLOYMENT \in df_all.columns) =>
          IF df_view.rows = <<>> THEN mode = "N/A"
          ELSE /\ \E i \in 1..Len(df_view.rows) : df_view.rows[i][EMPLOYMENT] = <<mode>>
               /\ \A i \in 1..Len(df_view.rows) :
                     \/ df_view.rows[i][EMPLOYMENT] = NaN
                     \/ Count(df_view, EMPLOYMENT, df_view.rows[i][EMPLOYMENT][1])
                           <= Count(df_view, EMPLOYMENT, mode)

\* a table with a missing employment status, and a view that is not empty
C6_Witness ==
    /\ pc = "shown"
    /\ EMPLOYMENT \in df_all.columns
    /\ \E i \in 1..Len(df_all.rows) : df_all.rows[i][EMPLOYMENT] = NaN
    /\ df_view.rows # <<>>
    /\ mode \in {"Freelance", "Full-time"}

AgesSeen == Vals(df_all, AGE)
SeededLow == IntOfHalves(Least(AgesSeen))
SeededHigh == IntOfHalves(Greatest(AgesSeen))

AllDefaults ==
    /\ Filtered
    /\ \A c \in DOMAIN sel : sel[c] = Vals(df_all, c)
    /\ AGE \in df_all.columns => age_range = <<SeededLow, SeededHigh>>

Complete(r) == \A c \in df_all.columns \cap FilterColumns : r[c] # NaN

DefaultRows ==
    SelectSeq(df_all.rows,
              LAMBDA r : /\ Complete(r)
                         /\ AGE \in df_all.columns =>
                               2 * SeededLow <= r[AGE][1] /\ r[AGE][1] <= 2 * SeededHigh)

\* C10 as stated: with every control at its default the view is the rows with
\* no missing value in a present filter column and an age within
\* [int(min), int(max)]; it is the whole table only when there is no such row
\* and the smallest and the largest age seen are whole numbers.
C10_WholeOnlyIfIntegerBounds ==
    AllDefaults =>
        /\ df_view.rows = DefaultRows
        /\ df_view = df_all =>
              /\ \A i \in 1..Len(df_all.rows) : Complete(df_all.rows[i])
              /\ AGE \in df_all.columns =>
                    Least(AgesSeen) % 2 = 0 /\ Greatest(AgesSeen) % 2 = 0

\* C10 as amended: ...; it is the whole table exactly when there is no such
\* row and no age lies outside [int(min), int(max)].
C10_WholeIffNothingOutside ==
    AllDefaults =>
        /\ df_view.rows = DefaultRows
        /\ df_view = df_all <=>
              /\ \A i \in 1..Len(df_all.rows) : Complete(df_all.rows[i])
              /\ AGE \in df_all.columns =>
                    /\ 2 * SeededLow <= Least(AgesSeen)
                    /\ Greatest(AgesSeen) <= 2 * SeededHigh

\* defaults everywhere, and still a row is gone because its age, the largest,
\* is not a whole number
C10_Witness ==
    /\ AllDefaults
    /\ AGE \in df_all.columns
    /\ df_view.rows # <<>>
    /\ \E i \in 1..Len(df_all.rows) :
          /\ Complete(df_all.rows[i])
          /\ df_all.rows[i][AGE][1] > 2 * SeededHigh

-----------------------------------------------------------------------------
(* Properties of the panel, the charts and the export (SpecRender)         *)

ChartSources ==
    <<[fname |-> "pie.png", needs |-> {EMPLOYMENT}],
      [fname |-> "deliveries.png", needs |-> {COMPANY, DELIVERIES}],
      [fname |-> "age.png", needs |-> {AGE}],
      [fname |-> "income.png", needs |-> {NET_INCOME, EMPLOYMENT}],
      [fname |-> "expenses.png", needs |-> {COMPANY} \cup ExpenseColumns]>>

ChartsFor(cols) ==
    LET due == SelectSeq(ChartSources, LAMBDA ch : ch.needs \subseteq cols)
    IN  [i \in 1..Len(due) |-> due[i].fname]

ChartsBuilt == pc \in {"export", "images", "built", "export failed", "end"}

\* C4: whatever columns the view has, the Chart Builder does not fail, and it
\* retains, in the fixed order, exactly the charts whose source columns are all
\* there; the expenses chart is left out when one of its four columns is absent.
C4_ChartsFollowColumns ==
    /\ pc # "KeyError"
    /\ ChartsBuilt => charts = ChartsFor(df_view.columns)

Exported == pc \in {"images", "built"} \/ download = "pdf"

\* C5: in a pass that exports, the PDF's metric lines are the panel's metrics:
\* each of the four is in the document exactly if it is in the panel, with the
\* same value.
C5_PdfMetricsArePanelMetrics ==
    Exported =>
        {<<l, panel[l]>> : l \in DOMAIN panel}
            = {<<flow[i].label, flow[i].value>> :
                  i \in {j \in 1..Len(flow) :
                            /\ flow[j].kind = "Paragraph"
                            /\ flow[j].label \in {DELIVERIES_KPI, INSURANCE_KPI,
                                                  NET_INCOME_KPI, EMPLOYMENT_KPI}}}

\* C7: the temporary directory exists only while the export runs and is gone
\* when it ends, whether it ended well, in a failed image conversion or in a
\* failed build; and a failed export offers no download.
C7_TmpdirScopedToExport ==
    /\ tmpdir.exists => pc \in {"images", "built"}
    /\ pc \in {"end", "export failed"} => ~tmpdir.exists /\ tmpdir.files = {}
    /\ pc = "export failed" => download = "none"
    /\ download = "pdf" => pc = "end" /\ ImagesWritten = Len(charts)

\* an export that failed after it had written an image into the directory
C7_Witness ==
    /\ pc = "export failed"
    /\ ImagesWritten >= 1
    /\ ImagesWritten < Len(charts)
    /\ ~tmpdir.exists

-----------------------------------------------------------------------------
(* Properties of the password gate (Spec)                                  *)

PastGate ==
    pc \in {"source", "stopped for data", "filters", "kpi", "pivot", "charts",
            "export", "end", "raised"}

OnPage(x) == \E i \in 1..Len(page) : page[i] = x

\* C8: with a password set, a pass gets past the gate only if the form was
\* submitted in that pass with the configured password, and otherwise halts
\* there on the prompt, whatever happened in earlier passes; with none set
\* there is no gate.
C8_GateEveryPass ==
    /\ (PASSWORD # "" /\ PastGate) => ok /\ pwd = PASSWORD /\ OnPage("login form")
    /\ (PASSWORD # "" /\ pc = "stopped") =>
          /\ ~(ok /\ pwd = PASSWORD)
          /\ page = <<"title", "login form", INFO_PROMPT>>
    /\ PASSWORD = "" => pc # "stopped" /\ ~OnPage("login form") /\ denied = 0

\* a pass that ran to its end behind the gate, after passes the gate had halted
C8_Witness ==
    /\ PASSWORD # ""
    /\ denied = MaxDenied
    /\ pc = "end"
    /\ OnPage("export")

=============================================================================
